---- MODULE Spec2Model ----
(***************************************************************************)
(* Model of src/src/clip.rs: the SentryClip aggregate (event folder,       *)
(* event timestamp, ordered clips), its construction from a directory      *)
(* entry, the per-camera concatenation and the mosaic composition with     *)
(* its cleanup.  The file system, the wall clock, the per-file parser and  *)
(* the ffmpeg child process are the environment: their outcomes are        *)
(* nondeterministic choices.                                               *)
(***************************************************************************)
EXTENDS Integers, Sequences, FiniteSets, TLC

VARIABLES
    entry,      \* the DirEntry handed to the last from_folder call, or NoEntry
    clip,       \* the SentryClip under processing, or NoClip
    pc,         \* per run: the call in flight (blocked in Command::status) or idle
    ret,        \* per run: what the last finished call returned
    fs,         \* the files that exist on disk (path strings)
    pl          \* create_temp_playlist called on its own: arguments and outcome

vars == <<entry, clip, pc, ret, fs, pl>>

(***************************************************************************)
(* Bounds                                                                  *)
(***************************************************************************)
MaxEntries == 4         \* directory entries in an event folder
MaxClips == 3           \* directory entries behind the aggregates of SpecConcat
MaxInputs == 4          \* temporary files a caller can hand to create_mosaic
MaxNow == 3             \* wall-clock instants, in ticks
TicksPerMs == 2         \* clock ticks per millisecond
MaxPlaylistFiles == 2   \* files handed to create_temp_playlist on its own
MaxPathLen == 1         \* bytes of a path handed to create_temp_playlist on its own

Runs == {"run1", "run2"}
Main == "run1"
Cameras == {"front", "back"}
Times == {0, 1}
Whens == {0, 1}

NoEntry == [none |-> "entry"]
NoClip == [none |-> "clip"]
None == [some |-> FALSE]
Some(v) == [some |-> TRUE, value |-> v]
Idle == [op |-> "idle"]
NoRet == [op |-> "none", status |-> "none", value |-> "none"]

Ok(op, v) == [op |-> op, status |-> "Ok", value |-> v]
Err(op, e) == [op |-> op, status |-> "Err", value |-> e]
Panic(op, e) == [op |-> op, status |-> "Panic", value |-> e]

(***************************************************************************)
(* Paths.  A PathBuf is the sequence of its components; the root and the   *)
(* empty path have none.  BadName is a component that is not valid UTF-8.  *)
(***************************************************************************)
BadName == "<ff>"

RECURSIVE PathStr(_)
PathStr(p) == IF p = <<>> THEN "" ELSE PathStr(SubSeq(p, 1, Len(p) - 1)) \o "/" \o p[Len(p)]

\* Path::to_str: None unless every component is valid UTF-8.
to_str(p) ==
    IF \E i \in 1..Len(p) : p[i] = BadName THEN None
    ELSE IF p = <<>> THEN Some("/") ELSE Some(PathStr(p))

\* Path::parent: None for a path that ends in a root or is empty.
parent(p) == IF p = <<>> THEN None ELSE Some(SubSeq(p, 1, Len(p) - 1))

join(p, name) == Append(p, name)

Digit == <<"0", "1", "2", "3", "4", "5", "6", "7", "8", "9">>
TwoDigits(n) == Digit[((n \div 10) % 10) + 1] \o Digit[(n % 10) + 1]
ThreeDigits(n) == Digit[((n \div 100) % 10) + 1] \o TwoDigits(n % 100)

\* NaiveDateTime::format("%Y-%m-%d_%H-%M-%S") of the instant `w` seconds into
\* the minute 2020-01-01 00:00.
FormatDashed(w) == "2020-01-01_00-00-" \o TwoDigits(w % 60)

\* format("%Y%m%d_%H%M%S%3f") of an instant given in seconds and milliseconds.
FormatCompact(sec, ms) == "20200101_0000" \o TwoDigits(sec % 60) \o ThreeDigits(ms % 1000)

Instants == 0..MaxNow
MsOf(now) == (now \div TicksPerMs) % 1000
SecOf(now) == now \div (TicksPerMs * 1000)

\* crate::camera::Camera::camera_file_name
camera_file_name(c) == c

\* crate::formats::parse_tesla_timestamp on the stem of the folder name
parse_tesla_timestamp(name) ==
    IF \E w \in Whens : FormatDashed(w) = name
    THEN [ok |-> TRUE, value |-> CHOOSE w \in Whens : FormatDashed(w) = name]
    ELSE [ok |-> FALSE, value |-> "timestamp"]

(***************************************************************************)
(* Directory entries.  The i-th entry read_dir yields is named             *)
(* FileNames[i]; its kind says what the listing and the per-file parser    *)
(* make of it.                                                             *)
(***************************************************************************)
FileNames == <<"a", "b", "c", "d", "e", "f", "g", "h">>

EntryTypes ==
    {[kind |-> k, camera |-> "none", start_time |-> 0] : k \in {"err", "other", "bad"}}
    \cup {[kind |-> "clip", camera |-> c, start_time |-> t] : c \in Cameras, t \in Times}

Listings(n) ==
    UNION {{[i \in 1..k |-> [name |-> FileNames[i], kind |-> f[i].kind,
                             camera |-> f[i].camera, start_time |-> f[i].start_time]]
            : f \in [1..k -> EntryTypes]} : k \in 0..n}

\* crate::camera::CameraFile::from on the path of a regular file
CameraFile_from(e) ==
    IF e.kind = "clip"
    THEN [ok |-> TRUE,
          value |-> [camera |-> e.camera, start_time |-> e.start_time,
                     path |-> <<"/", e.name>>]]
    ELSE [ok |-> FALSE, value |-> "parse"]

\* list_files collecting into a Result: the first bad entry fails the listing
list_files_abort(dir) ==
    IF ~dir.readable \/ \E i \in 1..Len(dir.entries) : dir.entries[i].kind = "err"
    THEN [ok |-> FALSE, value |-> "io"]
    ELSE [ok |-> TRUE, value |-> SelectSeq(dir.entries, LAMBDA e : e.kind # "other")]

\* list_files: read_dir()? then filter_map keeping the Ok entries that are files
list_files(dir) ==
    IF ~dir.readable THEN [ok |-> FALSE, value |-> "io"]
    ELSE [ok |-> TRUE,
          value |-> SelectSeq(dir.entries, LAMBDA e : e.kind \notin {"err", "other"})]

\* insert_tail with the comparison turned strict: equal elements swap
RECURSIVE insert_tail_unstable(_, _)
insert_tail_unstable(s, x) ==
    IF s = <<>> THEN <<x>>
    ELSE IF s[Len(s)].start_time < x.start_time THEN Append(s, x)
    ELSE Append(insert_tail_unstable(SubSeq(s, 1, Len(s) - 1), x), s[Len(s)])

\* slice::sort_by: stable; each element goes after the ones that do not
\* compare greater.
RECURSIVE insert_tail(_, _)
insert_tail(s, x) ==
    IF s = <<>> THEN <<x>>
    ELSE IF s[Len(s)].start_time <= x.start_time THEN Append(s, x)
    ELSE Append(insert_tail(SubSeq(s, 1, Len(s) - 1), x), s[Len(s)])

RECURSIVE sort_by(_)
sort_by(s) ==
    IF s = <<>> THEN <<>>
    ELSE insert_tail(sort_by(SubSeq(s, 1, Len(s) - 1)), s[Len(s)])

RECURSIVE filter_map_parse(_)
filter_map_parse(es) ==
    IF es = <<>> THEN <<>>
    ELSE LET r == CameraFile_from(es[1])
             rest == filter_map_parse(Tail(es))
         IN IF r.ok THEN <<r.value>> \o rest ELSE rest

\* process_folder with the parse error propagated instead of logged
process_folder_strict(dir) ==
    LET l == list_files(dir)
    IN IF ~l.ok THEN l
       ELSE IF \E i \in 1..Len(l.value) : ~CameraFile_from(l.value[i]).ok
       THEN [ok |-> FALSE, value |-> "parse"]
       ELSE [ok |-> TRUE, value |-> sort_by(filter_map_parse(l.value))]

process_folder(dir) ==
    LET l == list_files(dir)
    IN IF ~l.ok THEN l
       ELSE [ok |-> TRUE, value |-> sort_by(filter_map_parse(l.value))]

\* SentryClip::from_folder as a function of the DirEntry
from_folder(e) ==
    LET clips == process_folder(e.dir)
        when == parse_tesla_timestamp(e.name)
    IN IF ~clips.ok THEN Err("from_folder", clips.value)
       ELSE IF ~when.ok THEN Err("from_folder", when.value)
       ELSE Ok("from_folder",
               [folder |-> join(e.parent, e.name), when |-> when.value,
                clips |-> clips.value])

is_empty(c) == c.clips = <<>>

\* the filter collecting back to front
RECURSIVE filter_camera_rev(_, _)
filter_camera_rev(s, camera) ==
    IF s = <<>> THEN <<>>
    ELSE IF s[1].camera = camera THEN filter_camera_rev(Tail(s), camera) \o <<s[1]>>
    ELSE filter_camera_rev(Tail(s), camera)

RECURSIVE filter_camera(_, _)
filter_camera(s, camera) ==
    IF s = <<>> THEN <<>>
    ELSE IF s[1].camera = camera THEN <<s[1]>> \o filter_camera(Tail(s), camera)
    ELSE filter_camera(Tail(s), camera)

files_per_camera(c, camera) == filter_camera(c.clips, camera)

\* mosaic_file falling back to the folder itself when it has no parent
mosaic_file_in_folder(c) ==
    LET p == parent(c.folder)
    IN Ok("mosaic_file",
          join(IF p.some THEN p.value ELSE c.folder, FormatDashed(c.when) \o "-mosaic.mp4"))

mosaic_file(c) ==
    LET mosaic_filename == FormatDashed(c.when) \o "-mosaic.mp4"
        p == parent(c.folder)
    IN IF ~p.some THEN Err("mosaic_file", "path")
       ELSE Ok("mosaic_file", join(p.value, mosaic_filename))

(***************************************************************************)
(* The event folders a caller hands to from_folder.                        *)
(***************************************************************************)
FolderNames == {FormatDashed(w) : w \in Whens} \cup {"junk"}

Dirs(n) ==
    {[readable |-> TRUE, entries |-> l] : l \in Listings(n)}
    \cup {[readable |-> FALSE, entries |-> <<>>]}

DirEntries(n) ==
    {[parent |-> <<"cam">>, name |-> nm, dir |-> d] : nm \in FolderNames, d \in Dirs(n)}

(***************************************************************************)
(* Actions on the aggregate                                                *)
(***************************************************************************)
\* The aggregate is built once, at the start of a processing run.
FromFolder(r) ==
    /\ entry = NoEntry
    /\ \A q \in Runs : pc[q] = Idle
    /\ \E e \in DirEntries(MaxEntries) :
          LET res == from_folder(e)
          IN /\ entry' = e
             /\ ret' = [ret EXCEPT ![r] = res]
             /\ clip' = IF res.status = "Ok" THEN res.value ELSE clip
    /\ UNCHANGED <<pc, fs, pl>>

IsEmpty(r) ==
    /\ clip # NoClip
    /\ pc[r] = Idle
    /\ ret' = [ret EXCEPT ![r] = Ok("is_empty", is_empty(clip))]
    /\ UNCHANGED <<entry, clip, pc, fs, pl>>

FilesPerCamera(r, camera) ==
    /\ clip # NoClip
    /\ pc[r] = Idle
    /\ ret' = [ret EXCEPT ![r] = Ok("files_per_camera", files_per_camera(clip, camera))]
    /\ UNCHANGED <<entry, clip, pc, fs, pl>>

MosaicFile(r) ==
    /\ clip # NoClip
    /\ pc[r] = Idle
    /\ ret' = [ret EXCEPT ![r] = mosaic_file(clip)]
    /\ UNCHANGED <<entry, clip, pc, fs, pl>>

(***************************************************************************)
(* create_temp_playlist.  A segment path is its sequence of bytes; BadByte *)
(* is a byte that is not valid UTF-8.                                      *)
(***************************************************************************)
BadByte == "<ff>"
Replacement == "<fffd>"

\* Path::display: lossy, an invalid byte shows as U+FFFD
display(path) == [i \in 1..Len(path) |-> IF path[i] = BadByte THEN Replacement ELSE path[i]]

\* format!("file '{}'", c.path.display())
row(c) == <<"f", "i", "l", "e", " ", "'">> \o display(c.path) \o <<"'">>

\* File::write: an error, or the first n bytes of the buffer are written,
\* at least one of them; the caller drops n.
write(buf) ==
    {[ok |-> FALSE, bytes |-> <<>>]}
    \cup {[ok |-> TRUE, bytes |-> SubSeq(buf, 1, n)] : n \in 1..Len(buf)}

\* one turn of the loop: the row, then the newline
write_row(c) ==
    UNION {IF ~w1.ok THEN {w1}
           ELSE {[ok |-> w2.ok, bytes |-> w1.bytes \o w2.bytes] : w2 \in write(<<"\n">>)}
           : w1 \in write(row(c))}

RECURSIVE write_rows(_)
write_rows(files) ==
    IF files = <<>> THEN {[ok |-> TRUE, bytes |-> <<>>]}
    ELSE UNION {IF ~o1.ok THEN {o1}
                ELSE {[ok |-> o2.ok, bytes |-> o1.bytes \o o2.bytes]
                      : o2 \in write_rows(Tail(files))}
                : o1 \in write_row(files[1])}

\* create_temp_playlist: every outcome, with the bytes the file then holds
create_temp_playlist(files) ==
    {[status |-> "Err", created |-> FALSE, content |-> <<>>]}
    \cup UNION {IF ~o.ok THEN {[status |-> "Err", created |-> TRUE, content |-> o.bytes]}
                ELSE {[status |-> st, created |-> TRUE, content |-> o.bytes]
                      : st \in {"Ok", "Err"}}
                : o \in write_rows(files)}

\* create_temp_playlist without the bytes: File::create fails, or the file
\* exists and a write or sync_all fails, or all of it succeeds
create_temp_playlist_status(files) ==
    {[status |-> "Err", created |-> FALSE],
     [status |-> "Err", created |-> TRUE],
     [status |-> "Ok", created |-> TRUE]}

(***************************************************************************)
(* concatenate_camera_files                                                *)
(***************************************************************************)
\* format!("{}-{}.mp4", ...): the file name with its extension split off
result_name(c, camera) ==
    [stem |-> FormatDashed(c.when) \o "-" \o camera_file_name(camera), ext |-> "mp4"]

NameStr(n) == n.stem \o "." \o n.ext

\* Path::file_stem of a name whose stem holds no dot
file_stem(n) == n.stem

playlist_filename(c, camera, now) ==
    "/tmp/tesla_playlist_tmp_" \o FormatCompact(SecOf(now), MsOf(now)) \o "_"
        \o FormatCompact(c.when, 0) \o "_" \o camera_file_name(camera) \o ".txt"

\* the temporary name built on the file name instead of its stem
result_tmp_file_path_keeps_ext(c, camera) ==
    join(c.folder, NameStr(result_name(c, camera)) \o "-tmp.mp4")

result_tmp_file_path(c, camera) ==
    join(c.folder, file_stem(result_name(c, camera)) \o "-tmp.mp4")

\* Up to Command::status: the playlist is written, the output path is named
\* and ffmpeg is spawned; the caller then blocks until the child terminates.
ConcatSpawn(r, camera) ==
    /\ clip # NoClip
    /\ pc[r] = Idle
    /\ \E now \in Instants, spawned \in BOOLEAN :
       \E o \in create_temp_playlist_status(files_per_camera(clip, camera)) :
          LET files == files_per_camera(clip, camera)
              playlist == playlist_filename(clip, camera, now)
              out == to_str(result_tmp_file_path(clip, camera))
          IN /\ fs' = IF o.created THEN fs \cup {playlist} ELSE fs
             /\ IF o.status = "Err"
                THEN /\ ret' = [ret EXCEPT ![r] = Err("concat", "io")]
                     /\ pc' = pc
                ELSE IF ~out.some
                THEN /\ ret' = [ret EXCEPT ![r] = Err("concat", "path")]
                     /\ pc' = pc
                ELSE IF ~spawned
                THEN /\ ret' = [ret EXCEPT ![r] = Err("concat", "spawn")]
                     /\ pc' = pc
                ELSE /\ ret' = [ret EXCEPT ![r] = NoRet]
                     /\ pc' = [pc EXCEPT ![r] =
                                 [op |-> "concat", camera |-> camera, now |-> now,
                                  files |-> files, playlist |-> playlist,
                                  out |-> out.value]]
    /\ UNCHANGED <<entry, clip, pl>>

\* The child has terminated, with or without having written its output; the
\* exit status is dropped and the output path returned.
ConcatReturn(r) ==
    /\ pc[r].op = "concat"
    /\ \E wrote \in BOOLEAN :
          fs' = IF wrote THEN fs \cup {pc[r].out} ELSE fs
    /\ ret' = [ret EXCEPT ![r] = Ok("concat", pc[r].out)]
    /\ pc' = [pc EXCEPT ![r] = Idle]
    /\ UNCHANGED <<entry, clip, pl>>

(***************************************************************************)
(* create_mosaic and delete_files                                          *)
(***************************************************************************)
\* remove_file: fails on a missing file, and can fail on an existing one
remove_file(file, disk) ==
    IF file \notin disk THEN {[ok |-> FALSE, fs |-> disk]}
    ELSE {[ok |-> TRUE, fs |-> disk \ {file}], [ok |-> FALSE, fs |-> disk]}

\* delete_files going on after a failed remove_file
RECURSIVE delete_files_keep_going(_, _)
delete_files_keep_going(files, disk) ==
    IF files = <<>> THEN {[ok |-> TRUE, fs |-> disk, deleted |-> 0]}
    ELSE UNION {{[ok |-> o.ok /\ d.ok, fs |-> d.fs,
                  deleted |-> IF o.ok THEN d.deleted + 1 ELSE d.deleted]
                 : d \in delete_files_keep_going(Tail(files), o.fs)}
                : o \in remove_file(files[1], disk)}

\* delete_files: every outcome, with the disk it leaves and the number of
\* files it removed; the first remove_file that fails ends the loop
RECURSIVE delete_files(_, _)
delete_files(files, disk) ==
    IF files = <<>> THEN {[ok |-> TRUE, fs |-> disk, deleted |-> 0]}
    ELSE UNION {IF ~o.ok THEN {[ok |-> FALSE, fs |-> o.fs, deleted |-> 0]}
                ELSE {[d EXCEPT !.deleted = @ + 1] : d \in delete_files(Tail(files), o.fs)}
                : o \in remove_file(files[1], disk)}

\* Up to Command::status: the mosaic path is named, the filter is built from
\* clips[0] and ffmpeg is spawned.
CreateMosaicSpawn(r, file_cameras) ==
    /\ clip # NoClip
    /\ pc[r] = Idle
    /\ \E spawned \in BOOLEAN :
          LET mf == mosaic_file(clip)
              early(kind) == [kind |-> kind, deleted |-> 0]
          IN IF mf.status = "Err"
             THEN /\ ret' = [ret EXCEPT ![r] = Err("create_mosaic", early("path"))]
                  /\ pc' = pc
             ELSE IF clip.clips = <<>>
             THEN /\ ret' = [ret EXCEPT ![r] = Panic("create_mosaic", early("index"))]
                  /\ pc' = pc
             ELSE IF ~to_str(mf.value).some
             THEN /\ ret' = [ret EXCEPT ![r] = Err("create_mosaic", early("path"))]
                  /\ pc' = pc
             ELSE IF ~spawned
             THEN /\ ret' = [ret EXCEPT ![r] = Err("create_mosaic", early("spawn"))]
                  /\ pc' = pc
             ELSE /\ ret' = [ret EXCEPT ![r] = NoRet]
                  /\ pc' = [pc EXCEPT ![r] = [op |-> "mosaic", inputs |-> file_cameras,
                                              mosaic |-> to_str(mf.value).value]]
    /\ UNCHANGED <<entry, clip, fs, pl>>

\* The child has terminated, with or without having written the mosaic; the
\* exit status is dropped and the inputs are deleted.
CreateMosaicReturn(r) ==
    /\ pc[r].op = "mosaic"
    /\ \E wrote \in BOOLEAN :
          LET disk == IF wrote THEN fs \cup {pc[r].mosaic} ELSE fs
          IN \E d \in delete_files(pc[r].inputs, disk) :
                /\ fs' = d.fs
                /\ ret' = [ret EXCEPT ![r] =
                             [op |-> "create_mosaic",
                              status |-> IF d.ok THEN "Ok" ELSE "Err",
                              value |-> [kind |-> IF d.ok THEN "unit" ELSE "io",
                                         deleted |-> d.deleted]]]
    /\ pc' = [pc EXCEPT ![r] = Idle]
    /\ UNCHANGED <<entry, clip, pl>>

NoPlaylist == [files |-> <<>>, status |-> "none", created |-> FALSE, content |-> <<>>]

(***************************************************************************)
(* create_temp_playlist on its own                                         *)
(***************************************************************************)
PathBytes == {"a", "'", "\n", BadByte}

Paths(n) == UNION {[1..k -> PathBytes] : k \in 1..n}

RECURSIVE Distinct(_)
Distinct(s) ==
    \/ s = <<>>
    \/ /\ \A i \in 2..Len(s) : s[i] # s[1]
       /\ Distinct(Tail(s))

PathLists(n, m) ==
    {s \in UNION {[1..k -> Paths(m)] : k \in 0..n} : Distinct(s)}

\* the CameraFile values behind a list of paths
AsFiles(paths) ==
    [i \in 1..Len(paths) |-> [camera |-> "front", start_time |-> 0, path |-> paths[i]]]

CreateTempPlaylist ==
    /\ pl.status = "none"
    /\ \E o \in create_temp_playlist(pl.files) :
          pl' = [files |-> pl.files, status |-> o.status, created |-> o.created,
                 content |-> o.content]
    /\ UNCHANGED <<entry, clip, pc, ret, fs>>

(***************************************************************************)
(* Specifications                                                          *)
(***************************************************************************)
Idles == [r \in Runs |-> Idle]
NoRets == [r \in Runs |-> NoRet]

\* One processing run up to the aggregate: from_folder, then its queries.
Init ==
    /\ entry = NoEntry
    /\ clip = NoClip
    /\ pc = Idles
    /\ ret = NoRets
    /\ fs = {}
    /\ pl = NoPlaylist

Next ==
    \/ FromFolder(Main)
    \/ IsEmpty(Main)
    \/ \E c \in Cameras : FilesPerCamera(Main, c)
    \/ MosaicFile(Main)

Spec == Init /\ [][Next]_vars

\* The aggregates from_folder builds from folders of up to n entries.
Aggregates(n) ==
    {from_folder(e).value : e \in {d \in DirEntries(n) : from_folder(d).status = "Ok"}}

\* One run concatenating cameras of an aggregate that from_folder built.
InitConcat ==
    /\ entry = NoEntry
    /\ clip \in {a \in Aggregates(MaxClips) : a.when = 0}
    /\ pc = Idles
    /\ ret = NoRets
    /\ fs = {}
    /\ pl = NoPlaylist

NextConcat ==
    \/ \E c \in Cameras : ConcatSpawn(Main, c)
    \/ ConcatReturn(Main)

SpecConcat == InitConcat /\ [][NextConcat]_vars

\* Aggregates as a caller can hold them (the fields are public): an event
\* folder under a UTF-8 parent, under a parent that is not UTF-8, and a
\* folder without a parent; no clip, or one.
SampleFolders == {<<"cam", FormatDashed(0)>>, <<BadName, FormatDashed(0)>>, <<>>}
SampleClips ==
    {<<>>, <<[camera |-> "front", start_time |-> 0, path |-> <<"/", "a">>]>>}
SampleAggregates ==
    {[folder |-> f, when |-> 0, clips |-> cs] : f \in SampleFolders, cs \in SampleClips}

\* Two runs of the same event at once.
InitRace ==
    /\ entry = NoEntry
    /\ clip \in SampleAggregates
    /\ pc = Idles
    /\ ret = NoRets
    /\ fs = {}
    /\ pl = NoPlaylist

NextRace ==
    \/ \E r \in Runs, c \in Cameras : ConcatSpawn(r, c)
    \/ \E r \in Runs : ConcatReturn(r)

SpecRace == InitRace /\ [][NextRace]_vars

\* The temporary files a caller hands to create_mosaic.
InputFiles == {"/cam/in" \o ToString(i) \o "-tmp.mp4" : i \in 1..4}
InputLists(n) == UNION {[1..k -> InputFiles] : k \in 0..n}

InitMosaic ==
    /\ entry = NoEntry
    /\ clip \in SampleAggregates
    /\ pc = Idles
    /\ ret = NoRets
    /\ fs = InputFiles
    /\ pl = NoPlaylist

NextMosaic ==
    \/ \E fc \in InputLists(MaxInputs) : CreateMosaicSpawn(Main, fc)
    \/ CreateMosaicReturn(Main)
    \/ IsEmpty(Main)

SpecMosaic == InitMosaic /\ [][NextMosaic]_vars

InitPlaylist ==
    /\ entry = NoEntry
    /\ clip = NoClip
    /\ pc = Idles
    /\ ret = NoRets
    /\ fs = {}
    /\ \E paths \in PathLists(MaxPlaylistFiles, MaxPathLen) :
          pl = [files |-> AsFiles(paths), status |-> "none", created |-> FALSE,
                content |-> <<>>]

NextPlaylist == CreateTempPlaylist

SpecPlaylist == InitPlaylist /\ [][NextPlaylist]_vars

(***************************************************************************)
(* Properties                                                              *)
(***************************************************************************)
Entries == entry.dir.entries
Built == clip # NoClip
Range(s) == {s[i] : i \in 1..Len(s)}

\* the position at which read_dir yielded the file behind a clip
DiscoveryIndex(c) == CHOOSE i \in 1..Len(Entries) : <<"/", Entries[i].name>> = c.path

SortedStable(clips) ==
    \A i, j \in 1..Len(clips) :
        i < j => \/ clips[i].start_time < clips[j].start_time
                 \/ /\ clips[i].start_time = clips[j].start_time
                    /\ DiscoveryIndex(clips[i]) < DiscoveryIndex(clips[j])

CameraIndices(clips, camera) == {j \in 1..Len(clips) : clips[j].camera = camera}

\* s holds the clips of the camera, each once, in the order of clips
IsCameraSubseq(s, clips, camera) ==
    LET J == CameraIndices(clips, camera)
    IN /\ Len(s) = Cardinality(J)
       /\ \A j \in J : s[Cardinality({k \in J : k <= j})] = clips[j]

\* C3: files_per_camera(C) is the order-preserving sub-sequence of clips
\* whose camera is C, and it is what concatenate_camera_files(C) hands to
\* create_temp_playlist.
C3_CameraFilter ==
    Built =>
        /\ \A c \in Cameras : IsCameraSubseq(files_per_camera(clip, c), clip.clips, c)
        /\ \A r \in Runs :
              pc[r].op = "concat" => IsCameraSubseq(pc[r].files, clip.clips, pc[r].camera)

\* a concatenation in flight for a camera with two clips around a clip of
\* the other camera
C3_Witness ==
    /\ Built
    /\ pc[Main].op = "concat"
    /\ Len(pc[Main].files) = 2
    /\ Len(clip.clips) = 3
    /\ clip.clips[2].camera # pc[Main].camera

NameParses == \E w \in Whens : FormatDashed(w) = entry.name
ParsedIndices == {k \in 1..Len(Entries) : Entries[k].kind = "clip"}

\* C4: when the folder can be listed and its name parses, from_folder
\* succeeds whatever files fail to parse, and the clips are exactly the
\* regular files that parsed, one entry each.
C4_PartialParse ==
    (entry # NoEntry /\ entry.dir.readable /\ NameParses) =>
        /\ Built
        /\ Len(clip.clips) = Cardinality(ParsedIndices)
        /\ \A k \in ParsedIndices :
              \E i \in 1..Len(clip.clips) :
                  clip.clips[i] = [camera |-> Entries[k].camera,
                                   start_time |-> Entries[k].start_time,
                                   path |-> <<"/", Entries[k].name>>]

\* four regular files, one of them unparseable, give three clips
C4_Witness ==
    /\ Built
    /\ Len(Entries) = 4
    /\ \A k \in 1..4 : Entries[k].kind \in {"bad", "clip"}
    /\ Cardinality({k \in 1..4 : Entries[k].kind = "bad"}) = 1
    /\ Len(clip.clips) = 3

\* C5: a playlist that create_temp_playlist reports written holds one line
\* per file, the i-th being file '<path_i>', and reading it back recovers
\* the paths.
FilePrefix == <<"f", "i", "l", "e", " ", "'">>

RECURSIVE SplitLines(_)
SplitLines(t) ==
    IF t = <<>> THEN <<>>
    ELSE IF \E i \in 1..Len(t) : t[i] = "\n"
    THEN LET n == CHOOSE i \in 1..Len(t) : t[i] = "\n" /\ \A k \in 1..(i - 1) : t[k] # "\n"
         IN <<SubSeq(t, 1, n - 1)>> \o SplitLines(SubSeq(t, n + 1, Len(t)))
    ELSE <<t>>

ParseLine(l) ==
    IF Len(l) >= 7 /\ SubSeq(l, 1, 6) = FilePrefix /\ l[Len(l)] = "'"
    THEN Some(SubSeq(l, 7, Len(l) - 1))
    ELSE None

C5_PlaylistRoundTrip ==
    pl.status = "Ok" =>
        LET lines == SplitLines(pl.content)
        IN /\ Len(lines) = Len(pl.files)
           /\ \A i \in 1..Len(pl.files) :
                 /\ lines[i] = FilePrefix \o pl.files[i].path \o <<"'">>
                 /\ ParseLine(lines[i]) = Some(pl.files[i].path)

\* <event-folder>/<event-timestamp>-<camera-name>-tmp.mp4
ExpectedOutput(c, camera) ==
    PathStr(c.folder) \o "/" \o FormatDashed(c.when) \o "-" \o camera \o "-tmp.mp4"

\* C6: is_empty holds exactly of an aggregate without clips; for a camera
\* without clips no concatenation reaches the backend and neither a playlist
\* nor an output file appears; the backend never composes a mosaic of an
\* aggregate without clips.
C6_EmptyGuard ==
    Built =>
        /\ is_empty(clip) <=> Len(clip.clips) = 0
        /\ \A c \in Cameras :
              files_per_camera(clip, c) = <<>> =>
                  /\ \A r \in Runs : ~(pc[r].op = "concat" /\ pc[r].camera = c)
                  /\ \A now \in Instants : playlist_filename(clip, c, now) \notin fs
                  /\ ExpectedOutput(clip, c) \notin fs
        /\ is_empty(clip) => \A r \in Runs : pc[r].op # "mosaic"

\* C7: for a folder without a parent mosaic_file fails with a path error and
\* create_mosaic returns it: the backend is never in flight and no file is
\* created or deleted.
C7_MissingParent ==
    (Built /\ Len(clip.folder) = 0) =>
        /\ mosaic_file(clip).status = "Err"
        /\ \A r \in Runs : pc[r].op # "mosaic"
        /\ fs = InputFiles
        /\ \A r \in Runs :
              ret[r].op = "create_mosaic" =>
                  /\ ret[r].status = "Err"
                  /\ ret[r].value.kind = "path"
                  /\ ret[r].value.deleted = 0

\* create_mosaic has been called on an aggregate with a clip whose folder
\* has no parent
C7_Witness ==
    /\ Built
    /\ Len(clip.folder) = 0
    /\ clip.clips # <<>>
    /\ ret[Main].op = "create_mosaic"

RegularNames == SelectSeq(Entries, LAMBDA e : e.kind \in {"bad", "clip"})

\* C8 as claimed: neither a failure of the listing nor a bad entry makes
\* list_files, process_folder or from_folder return an error.
C8_EnumerationNeverFatal ==
    entry # NoEntry =>
        /\ list_files(entry.dir).ok
        /\ process_folder(entry.dir).ok
        /\ ~Built => ret[Main].value = "timestamp"

\* C8 as amended: a bad entry (an error of the iteration, an entry that is
\* not a regular file) is skipped and fails nothing; a directory that cannot
\* be listed fails list_files, process_folder and from_folder.
C8_EntryErrorsSkipped ==
    entry # NoEntry =>
        /\ list_files(entry.dir).ok <=> entry.dir.readable
        /\ process_folder(entry.dir).ok <=> entry.dir.readable
        /\ entry.dir.readable => list_files(entry.dir).value = RegularNames
        /\ (~Built /\ ret[Main].value = "io") <=> ~entry.dir.readable

\* an aggregate with a clip built from a listing that held an erroring entry
\* and an entry that is not a regular file
C8_Witness ==
    /\ Built
    /\ clip.clips # <<>>
    /\ \E i, j \in 1..Len(Entries) : Entries[i].kind = "err" /\ Entries[j].kind = "other"

InFlight(r) == pc[r].op = "concat"

\* C9: the output path of a concatenation is
\* <event-folder>/<event-timestamp>-<camera-name>-tmp.mp4 whatever the
\* instant of the call, so two runs in flight for one camera share it, and
\* their playlists differ exactly when their instants differ in the
\* millisecond.
C9_DeterministicNaming ==
    /\ \A r \in Runs : InFlight(r) => pc[r].out = ExpectedOutput(clip, pc[r].camera)
    /\ \A r1, r2 \in Runs :
          (InFlight(r1) /\ InFlight(r2) /\ pc[r1].camera = pc[r2].camera) =>
              /\ pc[r1].out = pc[r2].out
              /\ pc[r1].playlist = pc[r2].playlist
                    <=> pc[r1].now \div TicksPerMs = pc[r2].now \div TicksPerMs

\* two runs in flight for one camera, started in different milliseconds:
\* one output path, two playlists
C9_Witness ==
    \E r1, r2 \in Runs :
        /\ r1 # r2
        /\ InFlight(r1) /\ InFlight(r2)
        /\ pc[r1].camera = pc[r2].camera
        /\ pc[r1].now \div TicksPerMs # pc[r2].now \div TicksPerMs
        /\ pc[r1].out = pc[r2].out
        /\ pc[r1].playlist # pc[r2].playlist

Prefix(s, k) == {s[i] : i \in 1..k}
Returning(r) == pc[r].op = "mosaic" /\ pc'[r].op = "idle"

\* C10: files are deleted only by create_mosaic after the backend has
\* returned; on success every input is gone; on failure the error is the
\* one of the failing remove_file, the files removed are those of a proper
\* prefix of the list and every later file is as it was.
C10_FailFastCleanup ==
    [][\A r \in Runs :
        /\ pc[r].op # "mosaic" => (pc'[r].op = "mosaic" => fs' = fs)
        /\ (\A q \in Runs : ~Returning(q)) => fs \subseteq fs'
        /\ Returning(r) =>
              LET inputs == pc[r].inputs
                  removed == fs \ fs'
                  k == ret'[r].value.deleted
              IN /\ ret'[r].status = "Ok" =>
                       k = Len(inputs) /\ removed = Range(inputs)
                 /\ ret'[r].status = "Err" =>
                       /\ ret'[r].value.kind = "io"
                       /\ k < Len(inputs)
                       /\ removed = Prefix(inputs, k)
                       /\ \A j \in (k + 1)..Len(inputs) :
                             inputs[j] \notin Prefix(inputs, k) =>
                                 (inputs[j] \in fs' <=> inputs[j] \in fs)
      ]_vars

\* a create_mosaic that failed after removing some of its inputs, with
\* inputs left on disk
C10_Witness ==
    /\ ret[Main].op = "create_mosaic"
    /\ ret[Main].status = "Err"
    /\ ret[Main].value.kind = "io"
    /\ ret[Main].value.deleted >= 1
    /\ fs \cap InputFiles # {}

\* <parent-of-event-folder>/<event-timestamp>-mosaic.mp4
ExpectedMosaic(c) ==
    PathStr(SubSeq(c.folder, 1, Len(c.folder) - 1)) \o "/" \o FormatDashed(c.when)
        \o "-mosaic.mp4"

\* C1: when create_mosaic returns Ok for four distinct existing input files,
\* none of them exists afterwards and the mosaic exists at
\* <parent-of-event-folder>/<event-timestamp>-mosaic.mp4.
C1_MosaicCleanup ==
    [][\A r \in Runs :
        (/\ Returning(r)
         /\ ret'[r].status = "Ok"
         /\ Len(pc[r].inputs) = 4
         /\ Cardinality(Range(pc[r].inputs)) = 4
         /\ Range(pc[r].inputs) \subseteq fs)
        => /\ Range(pc[r].inputs) \cap fs' = {}
           /\ ExpectedMosaic(clip) \in fs'
      ]_vars

====
